---- MODULE Spec2Model ----
(***************************************************************************)
(* A model of bin/refreshSynteny.py: the mouse/human synteny block         *)
(* construction.  Genome A is mouse (keys mchr, mstart, mend, mstrand),    *)
(* genome B is human (keys hchr, hstart, hend, hstrand).  A row is a       *)
(* Python dict, modelled as a TLA+ record whose domain grows when main     *)
(* adds the keys iHi, iMi and block.  A block is the Python list           *)
(* [bname, ori, blockCount, pair.copy()], modelled as the record           *)
(* [bname, ori, bcount, fields].                                           *)
(***************************************************************************)
EXTENDS Integers, Sequences, FiniteSets, TLC

VARIABLES
    rows,        \* the result set of db.sql(q), in the order the query gives it
    allPairs,    \* main's working list of pairs
    blks,        \* the block list (blocks in generateBlocks, blks in main)
    mchr2count,  \* the module-level dict of startBlock
    idx,         \* generateBlocks' position in allPairs (1-based)
    pc,          \* where main stands
    run,         \* how many times main has been entered in this process
    prev         \* the block list the previous call of main handed to the output

vars == <<rows, allPairs, blks, mchr2count, idx, pc, run, prev>>

---------------------------------------------------------------------------
(* Bounds of the model.                                                    *)

\* the largest number of rows the query returns
MaxPairs == 3
\* the largest number of rows when the rows may be malformed
MaxRawRows == 2
\* the number of calls of main in one process
MaxRuns == 2

---------------------------------------------------------------------------
(* Values.                                                                 *)

\* A NULL coordinate of the query (cast(NULL AS int)) arrives as Python's
\* None.  Python 2 orders None below every number, and real coordinates are
\* at least 1, so None is modelled as the integer below all of them.
None == 0

\* Chromosome names the rows use (a few of MCHRS and HCHRS).
MChrs == {"6", "X"}
HChrs == {"22", "3"}

\* All chromosome names of the model in Python's str order ("22" < "3" < "6" < "X").
ChrOrder == <<"22", "3", "6", "X">>

ChrIndex(c) == CHOOSE k \in 1..Len(ChrOrder) : ChrOrder[k] = c

\* Python's a < b on two chromosome names.
StrLess(a, b) == ChrIndex(a) < ChrIndex(b)

\* queryMgi's map of strand codes.
smap == ("f" :> "+") @@ ("r" :> "-") @@ ("+" :> "+") @@ ("-" :> "-")

\* d[k] = v on a dict: the key is added when it is absent.
SetKey(d, k, v) == [f \in DOMAIN d \cup {k} |-> IF f = k THEN v ELSE d[f]]

Min(a, b) == IF a < b THEN a ELSE b
Max(a, b) == IF a > b THEN a ELSE b

---------------------------------------------------------------------------
(* queryMgi: the rows are normalised in place, in order; an unknown strand *)
(* code raises KeyError at the row that carries it.                        *)

\* the mouse half of the loop body, up to the lookup of the mouse strand
SwapMouse(r) ==
    IF r.mend < r.mstart
        THEN [r EXCEPT !.mstart = r.mend, !.mend = r.mstart]
        ELSE r

\* the human half of the loop body, up to the lookup of the human strand
SwapHuman(r) ==
    IF r.hend < r.hstart
        THEN [r EXCEPT !.hstart = r.hend, !.hend = r.hstart]
        ELSE r

\* smap[...] raises KeyError on this row
RaisesKeyError(r) == r.mstrand \notin DOMAIN smap \/ r.hstrand \notin DOMAIN smap

\* one whole iteration of the loop on a row whose strand codes are known
NormaliseRow(r) ==
    LET a == SwapMouse(r)
        b == [a EXCEPT !.mstrand = smap[a.mstrand]]
        c == SwapHuman(b)
    IN  [c EXCEPT !.hstrand = smap[c.hstrand]]

\* the iteration that raises: what it has written to the row before it does
NormaliseUntilError(r) ==
    LET a == SwapMouse(r)
    IN  IF a.mstrand \notin DOMAIN smap
            THEN a
            ELSE SwapHuman([a EXCEPT !.mstrand = smap[a.mstrand]])

\* the index of the first row that raises, 0 when none does
FirstBadRow(res) ==
    IF \E k \in 1..Len(res) : RaisesKeyError(res[k])
        THEN CHOOSE k \in 1..Len(res) :
                /\ RaisesKeyError(res[k])
                /\ \A j \in 1..(k - 1) : ~RaisesKeyError(res[j])
        ELSE 0

\* the rows as queryMgi leaves them (returned, or abandoned at the KeyError)
queryMgi(res) ==
    LET bad == FirstBadRow(res)
    IN  [k \in 1..Len(res) |->
            IF bad = 0 \/ k < bad THEN NormaliseRow(res[k])
            ELSE IF k = bad THEN NormaliseUntilError(res[k])
            ELSE res[k]]

---------------------------------------------------------------------------
(* Sorting and the overlap sweeps of main.  x is "m" or "h", as in         *)
(* _massageBlocks.                                                         *)

\* the sort key lambda x:(x['hchr'], x['hstart']) (or mchr, mstart), compared
\* as Python compares tuples
KeyLess(p, q, x) ==
    \/ StrLess(p[x \o "chr"], q[x \o "chr"])
    \/ /\ p[x \o "chr"] = q[x \o "chr"]
       /\ p[x \o "start"] < q[x \o "start"]

\* list.sort is stable: p goes after every element whose key is not greater
RECURSIVE SortPairs(_, _)
SortPairs(s, x) ==
    IF s = <<>> THEN <<>>
    ELSE LET front == SortPairs(SubSeq(s, 1, Len(s) - 1), x)
             p == s[Len(s)]
         IN  SelectSeq(front, LAMBDA e : ~KeyLess(p, e, x))
                \o <<p>>
                \o SelectSeq(front, LAMBDA e : KeyLess(p, e, x))

\* the sweep with every pair compared against the row scanned just before
\* it, retained or not
RECURSIVE SweepAgainstPreviousRow(_, _, _, _)
SweepAgainstPreviousRow(rest, tmp, before, x) ==
    IF rest = <<>> THEN tmp
    ELSE LET pair == Head(rest)
             skip == /\ before # <<>>
                     /\ before[1][x \o "chr"] = pair[x \o "chr"]
                     /\ before[1][x \o "end"] > pair[x \o "start"]
         IN  SweepAgainstPreviousRow(Tail(rest),
                IF skip THEN tmp ELSE Append(tmp, pair), <<pair>>, x)

RemoveOverlaps_PreviousRow(rest, tmp, x) == SweepAgainstPreviousRow(rest, tmp, <<>>, x)

\* one sweep: the loop over allPairs with lastPair and tmp
RECURSIVE RemoveOverlaps(_, _, _)
RemoveOverlaps(rest, tmp, x) ==
    IF rest = <<>> THEN tmp
    ELSE LET pair == Head(rest)
             skip == /\ tmp # <<>>
                     /\ tmp[Len(tmp)][x \o "chr"] = pair[x \o "chr"]
                     /\ tmp[Len(tmp)][x \o "end"] > pair[x \o "start"]
         IN  RemoveOverlaps(Tail(rest), IF skip THEN tmp ELSE Append(tmp, pair), x)

\* for (i, pair) in enumerate(allPairs): pair[key] = i
AssignIndex(s, key) == [k \in 1..Len(s) |-> SetKey(s[k], key, k - 1)]

---------------------------------------------------------------------------
(* Blocks: startBlock, extendBlock, canMerge.                              *)

\* (pair['mstrand'] == pair['hstrand']) and +1 or -1
Orientation(pair) == IF pair.mstrand = pair.hstrand THEN 1 ELSE -1

\* n = mchr2count.setdefault(mchr, 1): the value stored for mchr, 1 when new
CountOf(counts, mchr) == IF mchr \in DOMAIN counts THEN counts[mchr] ELSE 1

\* setdefault without the increment
BumpCount_NoIncrement(counts, mchr) == SetKey(counts, mchr, CountOf(counts, mchr))

\* mchr2count after setdefault and mchr2count[mchr] += 1
BumpCount(counts, mchr) == SetKey(counts, mchr, CountOf(counts, mchr) + 1)

\* "%s_%d" % (mchr, n)
BlockName(mchr, n) == mchr \o "_" \o ToString(n)

\* the block startBlock returns, given the dict as it stands at the call
startBlock(pair, counts) ==
    [bname  |-> BlockName(pair.mchr, CountOf(counts, pair.mchr)),
     ori    |-> Orientation(pair),
     bcount |-> 1,
     fields |-> pair]

\* extendBlock without the min on hstart
extendBlock_NoHumanMin(currPair, currBlock) ==
    [currBlock EXCEPT
        !.bcount = @ + 1,
        !.fields = [@ EXCEPT
            !.mstart = Min(@, currPair.mstart),
            !.mend   = Max(@, currPair.mend),
            !.hend   = Max(@, currPair.hend),
            !.iHi    = currPair.iHi]]

\* extendBlock without currBlock[2] = blockCount+1
extendBlock_NoCount(currPair, currBlock) ==
    [currBlock EXCEPT
        !.fields = [@ EXCEPT
            !.mstart = Min(@, currPair.mstart),
            !.mend   = Max(@, currPair.mend),
            !.hstart = Min(@, currPair.hstart),
            !.hend   = Max(@, currPair.hend),
            !.iHi    = currPair.iHi]]

\* currBlock after extendBlock(currPair, currBlock)
extendBlock(currPair, currBlock) ==
    [currBlock EXCEPT
        !.bcount = @ + 1,
        !.fields = [@ EXCEPT
            !.mstart = Min(@, currPair.mstart),
            !.mend   = Max(@, currPair.mend),
            !.hstart = Min(@, currPair.hstart),
            !.hend   = Max(@, currPair.hend),
            !.iHi    = currPair.iHi]]

\* canMerge with iHi + 1 for iHi + ori
canMerge_RankPlusOne(currPair, currBlock) ==
    IF currBlock = <<>> THEN FALSE
    ELSE LET ori == currBlock[1].ori
             cbfields == currBlock[1].fields
             cori == Orientation(currPair)
         IN  /\ currPair.mchr = cbfields.mchr
             /\ currPair.hchr = cbfields.hchr
             /\ ori = cori
             /\ currPair.iHi = cbfields.iHi + 1

\* canMerge without the test on hchr
canMerge_AnyHumanChr(currPair, currBlock) ==
    IF currBlock = <<>> THEN FALSE
    ELSE LET ori == currBlock[1].ori
             cbfields == currBlock[1].fields
             cori == Orientation(currPair)
         IN  /\ currPair.mchr = cbfields.mchr
             /\ ori = cori
             /\ currPair.iHi = cbfields.iHi + ori

\* canMerge without the test ori == cori
canMerge_AnyOrientation(currPair, currBlock) ==
    IF currBlock = <<>> THEN FALSE
    ELSE LET ori == currBlock[1].ori
             cbfields == currBlock[1].fields
         IN  /\ currPair.mchr = cbfields.mchr
             /\ currPair.hchr = cbfields.hchr
             /\ currPair.iHi = cbfields.iHi + ori

\* currBlock is the empty sequence for None, else the one block in a sequence
canMerge(currPair, currBlock) ==
    IF currBlock = <<>> THEN FALSE
    ELSE LET ori == currBlock[1].ori
             cbfields == currBlock[1].fields
             cori == Orientation(currPair)
         IN  /\ currPair.mchr = cbfields.mchr
             /\ currPair.hchr = cbfields.hchr
             /\ ori = cori
             /\ currPair.iHi = cbfields.iHi + ori

\* generateBlocks' currBlock: None before the first pair, then the block
\* appended last (startBlock's result is appended at once and extendBlock
\* changes it in place)
CurrBlock(blocks) == IF blocks = <<>> THEN <<>> ELSE <<blocks[Len(blocks)]>>

\* the default of generateBlocks' parameter tagPairs, which is what main's
\* call generateBlocks(allPairs) passes
tagPairsDefault == TRUE

\* the body of generateBlocks' loop for currPair: the block list, the dict
\* mchr2count and the pair as the iteration leaves them; the pair gets its
\* block id only if tagPairs
generateBlocksBody(currPair, blocks, counts, tagPairs) ==
    LET merge == canMerge(currPair, CurrBlock(blocks))
        out == IF merge
                 THEN [blocks EXCEPT ![Len(blocks)] = extendBlock(currPair, @)]
                 ELSE Append(blocks, startBlock(currPair, counts))
    IN  [blocks |-> out,
         counts |-> IF merge THEN counts ELSE BumpCount(counts, currPair.mchr),
         pair   |-> IF tagPairs
                      THEN SetKey(currPair, "block", out[Len(out)].bname)
                      ELSE currPair]

---------------------------------------------------------------------------
(* _massageBlocks and massageBlocks.                                       *)

\* the loop body without epsilon
MassageStep_NoEpsilon(st, x, i) ==
    LET b1 == IF i = 1
                THEN [st.blocks EXCEPT ![1].fields[x \o "start"] = 1]
                ELSE st.blocks
        cbfields == b1[i].fields
        nbfields == b1[i + 1].fields
        delta == nbfields[x \o "start"] - cbfields[x \o "end"]
    IN  IF st.err THEN st
        ELSE IF cbfields[x \o "chr"] # nbfields[x \o "chr"]
            THEN [st EXCEPT !.blocks = [b1 EXCEPT ![i + 1].fields[x \o "start"] = 1]]
        ELSE IF nbfields[x \o "start"] = None \/ cbfields[x \o "end"] = None
            THEN [blocks |-> b1, err |-> TRUE]
        ELSE [st EXCEPT !.blocks =
                [b1 EXCEPT ![i].fields[x \o "end"] = @ + (delta \div 2),
                           ![i + 1].fields[x \o "start"] = @ - (delta \div 2)]]

\* the loop body with the end of a chromosome's last block pushed on by one
MassageStep_ExtendsLast(st, x, i) ==
    LET b1 == IF i = 1
                THEN [st.blocks EXCEPT ![1].fields[x \o "start"] = 1]
                ELSE st.blocks
        cbfields == b1[i].fields
        nbfields == b1[i + 1].fields
        delta == nbfields[x \o "start"] - cbfields[x \o "end"]
        epsilon == 1 - (delta % 2)
    IN  IF st.err THEN st
        ELSE IF cbfields[x \o "chr"] # nbfields[x \o "chr"]
            THEN [st EXCEPT !.blocks = [b1 EXCEPT ![i].fields[x \o "end"] = @ + 1,
                                                  ![i + 1].fields[x \o "start"] = 1]]
        ELSE IF nbfields[x \o "start"] = None \/ cbfields[x \o "end"] = None
            THEN [blocks |-> b1, err |-> TRUE]
        ELSE [st EXCEPT !.blocks =
                [b1 EXCEPT ![i].fields[x \o "end"] = @ + (delta \div 2),
                           ![i + 1].fields[x \o "start"] = @ - ((delta \div 2) - epsilon)]]

\* the body of the loop of _massageBlocks for the 1-based position i
\* (Python's i is i - 1); err is set when the arithmetic meets a None
MassageStep(st, x, i) ==
    LET b1 == IF i = 1
                THEN [st.blocks EXCEPT ![1].fields[x \o "start"] = 1]
                ELSE st.blocks
        cbfields == b1[i].fields
        nbfields == b1[i + 1].fields
        delta == nbfields[x \o "start"] - cbfields[x \o "end"]
        epsilon == 1 - (delta % 2)
    IN  IF st.err THEN st
        ELSE IF cbfields[x \o "chr"] # nbfields[x \o "chr"]
            THEN [st EXCEPT !.blocks = [b1 EXCEPT ![i + 1].fields[x \o "start"] = 1]]
        ELSE IF nbfields[x \o "start"] = None \/ cbfields[x \o "end"] = None
            THEN [blocks |-> b1, err |-> TRUE]
        ELSE [st EXCEPT !.blocks =
                [b1 EXCEPT ![i].fields[x \o "end"] = @ + (delta \div 2),
                           ![i + 1].fields[x \o "start"] = @ - ((delta \div 2) - epsilon)]]

RECURSIVE MassageFrom(_, _, _)
MassageFrom(st, x, i) ==
    IF i > Len(st.blocks) - 1 THEN st
    ELSE MassageFrom(MassageStep(st, x, i), x, i + 1)

\* _massageBlocks(blocks, x)
MassageOne(blocks, x) == MassageFrom([blocks |-> blocks, err |-> FALSE], x, 1)

\* a sort that is not stable: b goes before the elements whose key is equal
RECURSIVE SortBlocks_TiesReversed(_, _)
SortBlocks_TiesReversed(s, x) ==
    IF s = <<>> THEN <<>>
    ELSE LET front == SortBlocks_TiesReversed(SubSeq(s, 1, Len(s) - 1), x)
             b == s[Len(s)]
         IN  SelectSeq(front, LAMBDA e : KeyLess(e.fields, b.fields, x))
                \o <<b>>
                \o SelectSeq(front, LAMBDA e : ~KeyLess(e.fields, b.fields, x))

\* blocks.sort(key=lambda b:(b[-1][x+'chr'], b[-1][x+'start'])), stable
RECURSIVE SortBlocks(_, _)
SortBlocks(s, x) ==
    IF s = <<>> THEN <<>>
    ELSE LET front == SortBlocks(SubSeq(s, 1, Len(s) - 1), x)
             b == s[Len(s)]
         IN  SelectSeq(front, LAMBDA e : ~KeyLess(b.fields, e.fields, x))
                \o <<b>>
                \o SelectSeq(front, LAMBDA e : KeyLess(b.fields, e.fields, x))

\* the first pass keyed on the human coordinates
MassageMousePass_HumanKey(blocks) == MassageOne(blocks, "h")

\* blocks = _massageBlocks(blocks, 'm')
MassageMousePass(blocks) == MassageOne(blocks, "m")

\* the sort on human coordinates, the human pass and the sort back on mouse
\* coordinates; a TypeError leaves the list where it stood
MassageHumanPass(blocks) ==
    LET h == MassageOne(SortBlocks(blocks, "h"), "h")
    IN  IF h.err THEN h
        ELSE [blocks |-> SortBlocks(h.blocks, "m"), err |-> FALSE]

\* massageBlocks(blocks)
massageBlocks(blocks) ==
    LET m == MassageMousePass(blocks)
    IN  IF m.err THEN m ELSE MassageHumanPass(m.blocks)

---------------------------------------------------------------------------
(* The rows the query may return.                                          *)

\* Where the genes of the rows lie, as <<chromosome, start, end>>.  On mouse
\* chromosome 6 two genes start together (one of them one base long), two
\* touch, and the gaps between the others are 1, 2 and 3 bases; on human
\* chromosome 22 two genes touch and the gaps are 1 and 2 bases.
MLocs == { <<"6", 1, 1>>, <<"6", 1, 3>>, <<"6", 3, 3>>, <<"6", 4, 5>>, <<"X", 2, 3>> }
HLocs == { <<"22", 1, 1>>, <<"22", 2, 3>>, <<"22", 3, 3>>, <<"3", 2, 3>> }

\* the strands of a row's two genes: opposite, or the same
StrandPairs == { <<"+", "-">>, <<"-", "-">> }

\* rows as the database holds them in practice: start <= end, strands + or -
Rows ==
    { [mchr |-> m[1], mstart |-> m[2], mend |-> m[3], mstrand |-> st[1],
       hchr |-> h[1], hstart |-> h[2], hend |-> h[3], hstrand |-> st[2]] :
        m \in MLocs, h \in HLocs, st \in StrandPairs }

\* rows as the query's columns allow them: an end before its start, a NULL
\* coordinate (the query only asks for a mouse start), any strand code
RawRows ==
    { [mchr |-> "6", mstart |-> ms, mend |-> me, mstrand |-> mst,
       hchr |-> "22", hstart |-> hs, hend |-> 2, hstrand |-> hst] :
        ms \in {1, 2}, me \in {None, 1, 2}, mst \in {"+", "f", "forward"},
        hs \in {None, 1, 3}, hst \in {"-", "r", "?"} }

\* ORDER BY mchr, mstart: r may follow the rows fetched so far
InQueryOrder(res, r) ==
    IF res = <<>> THEN TRUE ELSE ~KeyLess(r, res[Len(res)], "m")

---------------------------------------------------------------------------
(* The state machine: main, one action per stage, generateBlocks one       *)
(* action per pair.                                                        *)

Init ==
    /\ rows = <<>>
    /\ allPairs = <<>>
    /\ blks = <<>>
    /\ mchr2count = <<>>
    /\ idx = 0
    /\ pc = "fetch"
    /\ run = 1
    /\ prev = <<>>

\* db.sql(q) delivers one more row
Fetch ==
    /\ pc = "fetch"
    /\ Len(rows) < MaxPairs
    /\ \E r \in Rows :
        /\ InQueryOrder(rows, r)
        /\ rows' = Append(rows, r)
    /\ UNCHANGED <<allPairs, blks, mchr2count, idx, pc, run, prev>>

\* allPairs = queryMgi()
QueryMgi ==
    /\ pc = "fetch"
    /\ allPairs' = queryMgi(rows)
    /\ pc' = IF FirstBadRow(rows) = 0 THEN "sweepMouse" ELSE "aborted"
    /\ UNCHANGED <<rows, blks, mchr2count, idx, run, prev>>

\* Scan list. Remove any mouse gene overlaps.
SweepMouse ==
    /\ pc = "sweepMouse"
    /\ allPairs' = RemoveOverlaps(allPairs, <<>>, "m")
    /\ pc' = "sweepHuman"
    /\ UNCHANGED <<rows, blks, mchr2count, idx, run, prev>>

\* the human sweep run on all the rows of the query, not on the survivors
\* of the mouse sweep
SweepHuman_AllRows ==
    /\ pc = "sweepHuman"
    /\ allPairs' = RemoveOverlaps(SortPairs(queryMgi(rows), "h"), <<>>, "h")
    /\ pc' = "indexHuman"
    /\ UNCHANGED <<rows, blks, mchr2count, idx, run, prev>>

\* Sort by human chr/start coords and remove any overlapping genes.
SweepHuman ==
    /\ pc = "sweepHuman"
    /\ allPairs' = RemoveOverlaps(SortPairs(allPairs, "h"), <<>>, "h")
    /\ pc' = "indexHuman"
    /\ UNCHANGED <<rows, blks, mchr2count, idx, run, prev>>

\* Assign human index order
IndexHuman ==
    /\ pc = "indexHuman"
    /\ allPairs' = AssignIndex(allPairs, "iHi")
    /\ pc' = "indexMouse"
    /\ UNCHANGED <<rows, blks, mchr2count, idx, run, prev>>

\* re-sort on mouse chr/start coords and assign index; generateBlocks is
\* entered with blocks = [] and currBlock = None
IndexMouse ==
    /\ pc = "indexMouse"
    /\ allPairs' = AssignIndex(SortPairs(allPairs, "m"), "iMi")
    /\ blks' = <<>>
    /\ idx' = 1
    /\ pc' = "generate"
    /\ UNCHANGED <<rows, mchr2count, run, prev>>

\* one iteration of generateBlocks' loop
GenerateStep ==
    /\ pc = "generate"
    /\ idx <= Len(allPairs)
    /\ LET body == generateBlocksBody(allPairs[idx], blks, mchr2count, tagPairsDefault)
       IN  /\ blks' = body.blocks
           /\ mchr2count' = body.counts
           /\ allPairs' = [allPairs EXCEPT ![idx] = body.pair]
    /\ idx' = idx + 1
    /\ UNCHANGED <<rows, pc, run, prev>>

\* generateBlocks returns blocks
GenerateReturn ==
    /\ pc = "generate"
    /\ idx > Len(allPairs)
    /\ pc' = "massageMouse"
    /\ UNCHANGED <<rows, allPairs, blks, mchr2count, idx, run, prev>>

\* massageBlocks, first line
MassageMouse ==
    /\ pc = "massageMouse"
    /\ blks' = MassageMousePass(blks).blocks
    /\ pc' = IF MassageMousePass(blks).err THEN "aborted" ELSE "massageHuman"
    /\ UNCHANGED <<rows, allPairs, mchr2count, idx, run, prev>>

\* massageBlocks, the rest; main then writes the blocks
MassageHuman ==
    /\ pc = "massageHuman"
    /\ blks' = MassageHumanPass(blks).blocks
    /\ pc' = IF MassageHumanPass(blks).err THEN "aborted" ELSE "output"
    /\ UNCHANGED <<rows, allPairs, mchr2count, idx, run, prev>>

Pipeline ==
    \/ QueryMgi
    \/ SweepMouse
    \/ SweepHuman
    \/ IndexHuman
    \/ IndexMouse
    \/ GenerateStep
    \/ GenerateReturn
    \/ MassageMouse
    \/ MassageHuman

Next == Fetch \/ Pipeline

Spec == Init /\ [][Next]_vars

\* db.sql(q) delivers one more row of a table that holds malformed rows
FetchRaw ==
    /\ pc = "fetch"
    /\ Len(rows) < MaxRawRows
    /\ \E r \in RawRows :
        /\ InQueryOrder(rows, r)
        /\ rows' = Append(rows, r)
    /\ UNCHANGED <<allPairs, blks, mchr2count, idx, pc, run, prev>>

NextRaw == FetchRaw \/ Pipeline

\* the pipeline on rows that may be malformed
SpecRaw == Init /\ [][NextRaw]_vars

\* Genes that overlap: on mouse chromosome 6 and on human chromosome 22 a
\* gene 1-2, a longer gene 1-4 that starts with it, a gene 2-3 that touches
\* the first, and a gene 3-4 that overlaps the longer one only.
OverlapMLocs == { <<"6", 1, 2>>, <<"6", 1, 4>>, <<"6", 2, 3>>, <<"6", 3, 4>>, <<"X", 3, 4>> }
OverlapHLocs == { <<"22", 1, 2>>, <<"22", 1, 4>>, <<"22", 2, 3>>, <<"22", 3, 4>> }

OverlapRows ==
    { [mchr |-> m[1], mstart |-> m[2], mend |-> m[3], mstrand |-> "+",
       hchr |-> h[1], hstart |-> h[2], hend |-> h[3], hstrand |-> "+"] :
        m \in OverlapMLocs, h \in OverlapHLocs }

\* db.sql(q) delivers one more row of a table whose genes overlap
FetchOverlap ==
    /\ pc = "fetch"
    /\ Len(rows) < MaxPairs
    /\ \E r \in OverlapRows :
        /\ InQueryOrder(rows, r)
        /\ rows' = Append(rows, r)
    /\ UNCHANGED <<allPairs, blks, mchr2count, idx, pc, run, prev>>

NextOverlap == FetchOverlap \/ Pipeline

\* the pipeline on rows whose genes overlap
SpecOverlap == Init /\ [][NextOverlap]_vars

\* main is called again in the same process on the same table: its locals
\* are new, the module-level mchr2count is what the last call left, and
\* queryMgi returns the same rows
Rerun ==
    /\ pc = "output"
    /\ run < MaxRuns
    /\ run' = run + 1
    /\ prev' = blks
    /\ allPairs' = queryMgi(rows)
    /\ blks' = <<>>
    /\ idx' = 0
    /\ pc' = "sweepMouse"
    /\ UNCHANGED <<rows, mchr2count>>

NextRerun == Next \/ Rerun

\* the pipeline run up to MaxRuns times in one process
SpecRerun == Init /\ [][NextRerun]_vars

---------------------------------------------------------------------------
(* Vocabulary of the properties.                                           *)

Genomes == {"m", "h"}

\* the key x+k of a block's fields: Fld(b, "m", "start") is mstart
Fld(b, x, k) == b.fields[x \o k]

\* generateBlocks has returned
Generated == pc \in {"massageMouse", "massageHuman", "output"}

\* both ranks are assigned
Ranked == pc \in {"generate", "massageMouse", "massageHuman", "output"}

\* massageBlocks has returned
Massaged == pc = "output"

\* the orders of blks that are sorted by (chromosome, start) of genome x
SortedOrders(x) ==
    { f \in Permutations(1..Len(blks)) :
        \A k \in 1..(Len(blks) - 1) :
            ~KeyLess(blks[f[k + 1]].fields, blks[f[k]].fields, x) }

\* in the order f, neighbours on one chromosome of genome x leave no gap
\* and no overlap
Contiguous(f, x) ==
    \A k \in 1..(Len(blks) - 1) :
        Fld(blks[f[k]], x, "chr") = Fld(blks[f[k + 1]], x, "chr")
            => Fld(blks[f[k]], x, "end") + 1 = Fld(blks[f[k + 1]], x, "start")

\* the positions in allPairs of the pairs tagged with block b
Members(b) ==
    { p \in 1..Len(allPairs) :
        "block" \in DOMAIN allPairs[p] /\ allPairs[p].block = b.bname }

---------------------------------------------------------------------------
(* C1..C3: the partition and the non-overlap of the ranked pairs.          *)

\* C1: after massageBlocks, in each genome the blocks sorted by (chromosome,
\* start) leave no gap and no overlap between neighbours on one chromosome:
\* end(i) + 1 = start(i+1).  Blocks that start together may be taken in any
\* order.  The code breaks it: three one-pair blocks from the mouse genes
\* 6:1-3, 6:1-1, 6:1-1 come out as 1-2, 3-1, 2-1.
C1_Partition ==
    Massaged => \A x \in Genomes : \E f \in SortedOrders(x) : Contiguous(f, x)

\* C2: after massageBlocks, on every chromosome of each genome that carries a
\* block, the block with the smallest start starts at 1.  The code breaks it
\* for a list of one block, which the loop of _massageBlocks never visits.
C2_FirstBlockStartsAtOne ==
    Massaged =>
        \A x \in Genomes : \A k \in 1..Len(blks) :
            \E j \in 1..Len(blks) :
                /\ Fld(blks[j], x, "chr") = Fld(blks[k], x, "chr")
                /\ Fld(blks[j], x, "start") = 1

\* C3: once the ranks are assigned, two retained pairs on one chromosome of a
\* genome lie in rank order without overlap: rank(p) < rank(q) implies
\* end(p) <= start(q), for the mouse ranks and for the human ranks.  The code
\* breaks it on the mouse side: the sort before iMi is assigned is stable on
\* the human order, so two genes that start together may swap.
C3_NonOverlapByRank ==
    Ranked =>
        \A p, q \in 1..Len(allPairs) :
            /\ (allPairs[p].mchr = allPairs[q].mchr /\ allPairs[p].iMi < allPairs[q].iMi)
                    => allPairs[p].mend <= allPairs[q].mstart
            /\ (allPairs[p].hchr = allPairs[q].hchr /\ allPairs[p].iHi < allPairs[q].iHi)
                    => allPairs[p].hend <= allPairs[q].hstart

---------------------------------------------------------------------------
(* C4: every pair goes into exactly one block.                             *)

RECURSIVE SumCounts(_)
SumCounts(blocks) ==
    IF blocks = <<>> THEN 0 ELSE Head(blocks).bcount + SumCounts(Tail(blocks))

\* C4: when generateBlocks has returned, every pair carries one block id,
\* which names exactly one block of the list; every block's pairCount is the
\* number of pairs that carry its id and is at least 1, so the counts add up
\* to the number of pairs; no pairs give no blocks.
C4_EveryPairInOneBlock ==
    Generated =>
        /\ \A p \in 1..Len(allPairs) :
            /\ "block" \in DOMAIN allPairs[p]
            /\ Cardinality({ k \in 1..Len(blks) : blks[k].bname = allPairs[p].block }) = 1
        /\ \A k \in 1..Len(blks) :
            /\ blks[k].bcount = Cardinality(Members(blks[k]))
            /\ blks[k].bcount >= 1
        /\ SumCounts(blks) = Len(allPairs)
        /\ (rows = <<>> => blks = <<>>)

\* generateBlocks has returned two blocks or more, one of them of several pairs
C4_Witness ==
    /\ pc = "massageMouse"
    /\ Len(blks) >= 2
    /\ \E k \in 1..Len(blks) : blks[k].bcount >= 2

---------------------------------------------------------------------------
(* C5: the orientation of a block.                                         *)

\* the pair that started block b: its member of least mouse rank
FirstMember(b) ==
    CHOOSE p \in Members(b) : \A q \in Members(b) : allPairs[p].iMi <= allPairs[q].iMi

\* the orientation of every block is +1 or -1, +1 exactly when its first pair
\* has equal strands, and every pair of the block has equal strands exactly
\* when the orientation is +1
OrientationMatchesPairs ==
    \A k \in 1..Len(blks) :
        /\ blks[k].ori \in {1, -1}
        /\ Members(blks[k]) # {}
        /\ blks[k].ori = 1 <=>
             allPairs[FirstMember(blks[k])].mstrand = allPairs[FirstMember(blks[k])].hstrand
        /\ \A p \in Members(blks[k]) :
             blks[k].ori = 1 <=> allPairs[p].mstrand = allPairs[p].hstrand

\* a block that is in the list before and after a step keeps its orientation
OrientationKept ==
    \A k \in 1..Len(blks) : \A j \in 1..Len(blks') :
        blks[k].bname = blks'[j].bname => blks[k].ori = blks'[j].ori

\* C5: a block's orientation is +1 iff its first pair has strandA = strandB,
\* every pair merged into it has the same orientation, and no step
\* (extendBlock, the massaging passes) changes the orientation of a block.
C5_Orientation == [][OrientationMatchesPairs' /\ OrientationKept]_vars

\* a block of opposite orientation with several pairs has been massaged
C5_Witness ==
    /\ Massaged
    /\ \E k \in 1..Len(blks) : blks[k].ori = -1 /\ blks[k].bcount >= 2
    /\ \E k \in 1..Len(blks) : blks[k].ori = 1

---------------------------------------------------------------------------
(* C6: a second run in the same process.                                   *)

\* C6: running the pipeline twice on the same rows gives the same block
\* list, ids included.  The code breaks it when main (or generateBlocks) is
\* called twice in one process: mchr2count is module-level and is never
\* reset, so the second run numbers its blocks after those of the first.
C6_SameBlocksOnRerun == (run > 1 /\ Massaged) => blks = prev

---------------------------------------------------------------------------
(* C7: pairs in exactly reversed order make one block.                     *)

SetMin(S) == CHOOSE a \in S : \A b \in S : a <= b
SetMax(S) == CHOOSE a \in S : \A b \in S : a >= b

\* the rows lie on one mouse and one human chromosome, all with opposite
\* strands, none overlapping another, and their human starts fall as their
\* mouse starts rise
ReversedRows ==
    /\ Len(rows) >= 1
    /\ \A k \in 1..Len(rows) :
        /\ rows[k].mchr = rows[1].mchr
        /\ rows[k].hchr = rows[1].hchr
        /\ rows[k].mstrand # rows[k].hstrand
    /\ \A k \in 1..(Len(rows) - 1) :
        /\ rows[k].mstart < rows[k + 1].mstart
        /\ rows[k].mend <= rows[k + 1].mstart
        /\ rows[k + 1].hstart < rows[k].hstart
        /\ rows[k + 1].hend <= rows[k].hstart

\* C7: for rows as in ReversedRows the pipeline returns exactly one block:
\* id "<c>_1", orientation -1, pairCount the number of rows, and in each
\* genome the interval from the least start to the greatest end.
C7_ReversedRowsOneBlock ==
    (Massaged /\ ReversedRows) =>
        /\ Len(blks) = 1
        /\ blks[1].bname = rows[1].mchr \o "_1"
        /\ blks[1].ori = -1
        /\ blks[1].bcount = Len(rows)
        /\ blks[1].fields.mchr = rows[1].mchr
        /\ blks[1].fields.mstart = SetMin({ rows[k].mstart : k \in 1..Len(rows) })
        /\ blks[1].fields.mend = SetMax({ rows[k].mend : k \in 1..Len(rows) })
        /\ blks[1].fields.hchr = rows[1].hchr
        /\ blks[1].fields.hstart = SetMin({ rows[k].hstart : k \in 1..Len(rows) })
        /\ blks[1].fields.hend = SetMax({ rows[k].hend : k \in 1..Len(rows) })

\* three reversed rows have gone through the pipeline
C7_Witness == Massaged /\ ReversedRows /\ Len(rows) = 3

---------------------------------------------------------------------------
(* C8: block ids.                                                          *)

\* C8: while generateBlocks builds the list and when it returns, the k-th
\* block has the id "<chromosomeA>_<n>" with n the number of blocks up to
\* and including it on its mouse chromosome (1, 2, 3, ... without a gap),
\* and at any later point of the run no two blocks share an id.
C8_BlockIds ==
    /\ pc \in {"generate", "massageMouse"} =>
        \A k \in 1..Len(blks) :
            blks[k].bname =
                blks[k].fields.mchr \o "_" \o
                    ToString(Cardinality({ j \in 1..k : blks[j].fields.mchr = blks[k].fields.mchr }))
    /\ Ranked =>
        \A j, k \in 1..Len(blks) : blks[j].bname = blks[k].bname => j = k

\* two blocks on one mouse chromosome and one on the other
C8_Witness ==
    /\ pc = "massageMouse"
    /\ Len(blks) = 3
    /\ blks[2].bname = "6_2"
    /\ blks[3].bname = "X_1"

---------------------------------------------------------------------------
(* C9: malformed rows.                                                     *)

\* the strand codes of the input format, and those queryMgi's smap knows
RecognisedStrands == {"+", "-", "forward", "reverse"}
KnownStrands == RecognisedStrands \cup DOMAIN smap

MissingCoordinate(r) ==
    r.mstart = None \/ r.mend = None \/ r.hstart = None \/ r.hend = None

\* a row that is malformed whichever of the two sets of codes is meant
Malformed(r) ==
    \/ MissingCoordinate(r)
    \/ r.mstrand \notin KnownStrands
    \/ r.hstrand \notin KnownStrands

\* no rank has been assigned and no block made
NothingDerived ==
    /\ blks = <<>>
    /\ \A p \in 1..Len(allPairs) :
        "iHi" \notin DOMAIN allPairs[p] /\ "iMi" \notin DOMAIN allPairs[p]

\* C9: with a malformed row (a missing coordinate, a strand code outside the
\* recognised set) the run aborts before a rank is assigned or a block is
\* made: no state with such a row holds a rank or a block.  The code breaks
\* it: a None coordinate is compared and swapped like a number (Python 2
\* orders None below every int), so the row goes on and gets its ranks.
C9_MalformedAborts ==
    (\E k \in 1..Len(rows) : Malformed(rows[k])) => NothingDerived

\* the second half of C9 read to the letter: rows whose strand codes are
\* all among +, -, forward, reverse and whose coordinates are present do
\* not abort.  smap has the keys f and r, so forward and reverse raise
\* KeyError.
C9_RecognisedStrandsPass ==
    (\A k \in 1..Len(rows) :
        /\ ~MissingCoordinate(rows[k])
        /\ rows[k].mstrand \in RecognisedStrands
        /\ rows[k].hstrand \in RecognisedStrands) => pc # "aborted"

---------------------------------------------------------------------------
(* C10: the merge rule and the ranks of a block's pairs.                   *)

\* a step of generateBlocks merges its pair exactly when there is a current
\* block with the pair's two chromosomes and orientation whose last human
\* rank plus its orientation is the pair's human rank
MergeRule ==
    (pc = "generate" /\ idx' = idx + 1) =>
        LET pair == allPairs[idx]
            last == blks[Len(blks)]
            merged == /\ Len(blks') = Len(blks)
                      /\ blks'[Len(blks')].bcount = last.bcount + 1
            started == /\ Len(blks') = Len(blks) + 1
                       /\ blks'[Len(blks')].bcount = 1
        IN  /\ merged \/ started
            /\ merged <=>
                /\ blks # <<>>
                /\ pair.mchr = last.fields.mchr
                /\ pair.hchr = last.fields.hchr
                /\ (IF pair.mstrand = pair.hstrand THEN 1 ELSE -1) = last.ori
                /\ pair.iHi = last.fields.iHi + last.ori

\* in every block the mouse ranks of the pairs are consecutive and the human
\* rank changes by the orientation from each pair to the next
RanksContiguous ==
    \A k \in 1..Len(blks) :
        LET members == Members(blks[k])
            lo == SetMin({ allPairs[p].iMi : p \in members })
        IN  /\ { allPairs[p].iMi : p \in members } = lo..(lo + Cardinality(members) - 1)
            /\ \A p, q \in members :
                allPairs[q].iMi = allPairs[p].iMi + 1
                    => allPairs[q].iHi = allPairs[p].iHi + blks[k].ori

\* C10: generateBlocks merges a pair into the current block iff there is one
\* and chromosomeA, chromosomeB and the orientation agree and rankB is the
\* block's lastRankB + orientation; so the pairs of every block have
\* consecutive rankA and a rankB that changes by the orientation each time.
C10_MergeRule == [][MergeRule /\ RanksContiguous']_vars

\* a block of two pairs, and another block with the same chromosomes and
\* orientation that only the rank test kept apart from it
C10_Witness ==
    /\ Massaged
    /\ \E j, k \in 1..Len(blks) :
        /\ j # k
        /\ blks[k].bcount = 2
        /\ blks[j].ori = blks[k].ori
        /\ blks[j].fields.mchr = blks[k].fields.mchr
        /\ blks[j].fields.hchr = blks[k].fields.hchr

---------------------------------------------------------------------------
(* C11: the intervals and the last human rank of a generated block.        *)

\* the pair merged last into block b: its member of greatest mouse rank
LastMember(b) ==
    CHOOSE p \in Members(b) : \A q \in Members(b) : allPairs[p].iMi >= allPairs[q].iMi

\* C11: when generateBlocks has returned and before massaging, each block's
\* mouse interval is (mchr, least mstart, greatest mend) over its pairs, its
\* human interval is (hchr, least hstart, greatest hend) over its pairs, and
\* its iHi is the human rank of the pair merged last.
C11_BlockIntervals ==
    pc = "massageMouse" =>
        \A k \in 1..Len(blks) :
            LET members == Members(blks[k])
            IN  /\ members # {}
                /\ \A p \in members :
                    /\ allPairs[p].mchr = blks[k].fields.mchr
                    /\ allPairs[p].hchr = blks[k].fields.hchr
                /\ blks[k].fields.mstart = SetMin({ allPairs[p].mstart : p \in members })
                /\ blks[k].fields.mend = SetMax({ allPairs[p].mend : p \in members })
                /\ blks[k].fields.hstart = SetMin({ allPairs[p].hstart : p \in members })
                /\ blks[k].fields.hend = SetMax({ allPairs[p].hend : p \in members })
                /\ blks[k].fields.iHi = allPairs[LastMember(blks[k])].iHi

\* generateBlocks has returned a block of opposite orientation made of three
\* pairs (its human start is that of the last pair, its human end that of
\* the first)
C11_Witness ==
    /\ pc = "massageMouse"
    /\ \E k \in 1..Len(blks) :
        /\ blks[k].bcount = 3
        /\ blks[k].ori = -1
        /\ blks[k].fields.hstart < allPairs[FirstMember(blks[k])].hstart
        /\ blks[k].fields.mend > allPairs[FirstMember(blks[k])].mend

---------------------------------------------------------------------------
(* C12: what an overlap sweep retains.                                     *)

\* the positions of the scanned list s that the rule retains: k is dropped
\* exactly when a position retained before it exists and the last such one
\* is on k's chromosome with an end beyond k's start
Retained(s, x) ==
    CHOOSE K \in SUBSET (1..Len(s)) :
        \A k \in 1..Len(s) :
            k \notin K <=>
                \E j \in K :
                    /\ j < k
                    /\ \A i \in K : i < k => i <= j
                    /\ s[j][x \o "chr"] = s[k][x \o "chr"]
                    /\ s[k][x \o "start"] < s[j][x \o "end"]

\* out is s restricted to the positions K, in order
IsRestriction(out, s, K) ==
    /\ Len(out) = Cardinality(K)
    /\ \A k \in K : out[Cardinality({ j \in K : j <= k })] = s[k]

\* the sweep of genome x scanned s and left allPairs': s is in (chromosome,
\* start) order, the result is s restricted to the positions the rule
\* retains, the first pair of every chromosome is among them, and so is a
\* pair that starts where the pair retained before it ends
SweepRule(s, x) ==
    /\ \A k \in 1..(Len(s) - 1) : ~KeyLess(s[k + 1], s[k], x)
    /\ IsRestriction(allPairs', s, Retained(s, x))
    /\ \A k \in 1..Len(s) :
        (\A j \in 1..(k - 1) : s[j][x \o "chr"] # s[k][x \o "chr"])
            => k \in Retained(s, x)
    /\ \A k \in 2..Len(s) :
        (/\ k - 1 \in Retained(s, x)
         /\ s[k - 1][x \o "chr"] = s[k][x \o "chr"]
         /\ s[k][x \o "start"] = s[k - 1][x \o "end"])
            => \E p \in 1..Len(allPairs') : allPairs'[p] = s[k]

\* C12: each overlap sweep (mouse, then human), scanning the pairs in that
\* genome's (chromosome, start) order, drops a pair iff a pair retained
\* before it exists, the last retained pair is on the same chromosome and the
\* pair's start is strictly less than that pair's end; the test is against
\* the last retained pair, the first pair of a chromosome is always
\* retained, and a pair that starts at the last retained pair's end stays.
C12_SweepRule ==
    [][/\ (pc = "sweepMouse" /\ pc' = "sweepHuman") => SweepRule(allPairs, "m")
       /\ (pc = "sweepHuman" /\ pc' = "indexHuman")
            => SweepRule(SortPairs(allPairs, "h"), "h")]_vars

\* the mouse sweep has dropped the second of three rows on one chromosome
\* and retained the third, which overlaps the dropped row but not the first
C12_Witness ==
    /\ pc = "sweepHuman"
    /\ Len(rows) = 3
    /\ rows[1].mchr = rows[3].mchr
    /\ rows[2].mstart < rows[1].mend
    /\ rows[3].mstart < rows[2].mend
    /\ rows[3].mstart >= rows[1].mend
    /\ allPairs = <<rows[1], rows[3]>>

---------------------------------------------------------------------------
(* C13: the two sweeps run one after the other.                            *)

\* the columns of a row
RowKeys == {"mchr", "mstart", "mend", "mstrand", "hchr", "hstart", "hend", "hstrand"}

\* a pair without the keys main adds (iHi, iMi, block)
AsRow(p) == [k \in RowKeys |-> p[k]]

\* how often the row v occurs in the list s
Count(s, v) == Cardinality({ k \in 1..Len(s) : AsRow(s[k]) = v })

\* every row occurs in s at most as often as in t
SubList(s, t) == \A k \in 1..Len(s) : Count(s, AsRow(s[k])) <= Count(t, AsRow(s[k]))

\* the list s restricted to its positions in K, from position k on
RECURSIVE Restrict(_, _, _)
Restrict(s, K, k) ==
    IF k > Len(s) THEN <<>>
    ELSE (IF k \in K THEN <<s[k]>> ELSE <<>>) \o Restrict(s, K, k + 1)

\* the rows the mouse sweep retains, by the rule of C12
MouseSurvivors ==
    LET s == SubSeq(queryMgi(rows), 1, Len(rows))
    IN  Restrict(s, Retained(s, "m"), 1)

\* the human sweep scans the survivors of the mouse sweep and nothing else,
\* and whatever it drops overlaps, on the human side, a pair it retains
HumanSweepOnSurvivors ==
    (pc = "sweepHuman" /\ pc' = "indexHuman") =>
        /\ LET survivors == MouseSurvivors IN allPairs = survivors
        /\ SubList(allPairs', allPairs)
        /\ \A k \in 1..Len(allPairs) :
            Count(allPairs', allPairs[k]) < Count(allPairs, allPairs[k]) =>
                \E q \in 1..Len(allPairs') :
                    /\ allPairs'[q].hchr = allPairs[k].hchr
                    /\ allPairs'[q].hend > allPairs[k].hstart
                    /\ ~KeyLess(allPairs[k], allPairs'[q], "h")

\* from the human sweep on, the pairs in hand are survivors of the mouse
\* sweep: nothing the mouse sweep dropped comes back
DroppedStaysDropped ==
    pc \in {"indexHuman", "indexMouse", "generate", "massageMouse", "massageHuman", "output"}
        => LET survivors == MouseSurvivors IN SubList(allPairs, survivors)

\* C13: the human sweep scans only the survivors of the mouse sweep, so the
\* final set is a subset of them; every pair the human sweep drops is
\* overlapped by a pair it retains (never by one the mouse sweep dropped);
\* and a pair the mouse sweep dropped stays dropped, also when the pair that
\* overlapped it is dropped by the human sweep afterwards.
C13_SequentialSweeps == [][HumanSweepOnSurvivors]_vars /\ []DroppedStaysDropped

\* no overlap between the rows p and q in either genome
Compatible(p, q) ==
    /\ (p.mchr = q.mchr => (p.mend <= q.mstart \/ q.mend <= p.mstart))
    /\ (p.hchr = q.hchr => (p.hend <= q.hstart \/ q.hend <= p.hstart))

\* the mouse sweep dropped a row because of a row that the human sweep then
\* dropped; the first row overlaps nothing that is left, and is still gone
C13_Witness ==
    /\ pc = "indexHuman"
    /\ Len(allPairs) = 1
    /\ LET survivors == MouseSurvivors
       IN  \E a, b \in 1..Len(rows) :
        /\ Count(survivors, rows[a]) = 1
        /\ Count(allPairs, rows[a]) = 0
        /\ Count(survivors, rows[b]) = 0
        /\ rows[b].mstart < rows[a].mend
        /\ Compatible(rows[b], allPairs[1])

---------------------------------------------------------------------------
(* C14: what massageBlocks leaves alone.                                   *)

\* the step keeps the blocks: as many after as before, and each block of
\* before is there after, once, with its id, orientation, pairCount and
\* chromosomes, and with its start and end in genome x
KeepsBlocks(x) ==
    /\ Len(blks') = Len(blks)
    /\ \A k \in 1..Len(blks) :
        /\ Cardinality({ j \in 1..Len(blks') : blks'[j].bname = blks[k].bname }) = 1
        /\ \E j \in 1..Len(blks') :
            /\ blks'[j].bname = blks[k].bname
            /\ blks'[j].ori = blks[k].ori
            /\ blks'[j].bcount = blks[k].bcount
            /\ blks'[j].fields.mchr = blks[k].fields.mchr
            /\ blks'[j].fields.hchr = blks[k].fields.hchr
            /\ Fld(blks'[j], x, "start") = Fld(blks[k], x, "start")
            /\ Fld(blks'[j], x, "end") = Fld(blks[k], x, "end")

\* C14: the mouse pass of massageBlocks leaves every block's human start
\* and end unchanged, the human pass leaves every block's mouse start and
\* end unchanged, and both keep the multiset of blocks: none is added or
\* deleted, and each keeps its id, orientation, pairCount, mchr and hchr.
C14_MassageFrame ==
    [][/\ pc = "massageMouse" => KeepsBlocks("h")
       /\ pc = "massageHuman" => KeepsBlocks("m")]_vars

\* three blocks have been massaged; the passes moved a mouse end and a
\* human end beyond the genes of their blocks
C14_Witness ==
    /\ Massaged
    /\ Len(blks) = 3
    /\ \E k \in 1..Len(blks) :
        blks[k].fields.mend > SetMax({ allPairs[p].mend : p \in Members(blks[k]) })
    /\ \E k \in 1..Len(blks) :
        blks[k].fields.hend > SetMax({ allPairs[p].hend : p \in Members(blks[k]) })

---------------------------------------------------------------------------
(* C15: the two passes in the other order.                                 *)

\* the passes of massageBlocks taken the other way round: sort on human
\* coordinates and massage them, then sort on mouse coordinates and massage
\* those
HumanPassFirst(blocks) ==
    LET h == MassageOne(SortBlocks(blocks, "h"), "h").blocks
    IN  MassageOne(SortBlocks(h, "m"), "m").blocks

\* the passes in the order of massageBlocks, each after its sort
MousePassFirst(blocks) ==
    LET m == MassageOne(SortBlocks(blocks, "m"), "m").blocks
    IN  MassageOne(SortBlocks(m, "h"), "h").blocks

\* the final coordinates of every block, by id
Coordinates(blocks) ==
    { <<blocks[k].bname, blocks[k].fields.mstart, blocks[k].fields.mend,
        blocks[k].fields.hstart, blocks[k].fields.hend>> : k \in 1..Len(blocks) }

\* C15: for the list generateBlocks returns, the mouse pass followed by the
\* human pass (each on the list sorted for it, which is what massageBlocks
\* does) gives every block the same coordinates as the human pass followed
\* by the mouse pass.
C15_PassesCommute ==
    pc = "massageMouse" =>
        /\ Coordinates(MousePassFirst(blks)) = Coordinates(HumanPassFirst(blks))
        /\ Coordinates(massageBlocks(blks).blocks) = Coordinates(HumanPassFirst(blks))

\* generateBlocks has returned three blocks whose human order is not their
\* mouse order, and both passes have something to move
C15_Witness ==
    /\ pc = "massageMouse"
    /\ Len(blks) = 3
    /\ SortBlocks(blks, "h") # blks
    /\ \E k \in 1..3 : MassageOne(blks, "m").blocks[k].fields.mend # blks[k].fields.mend
    /\ \E k \in 1..3 : massageBlocks(blks).blocks[k].fields.hend # blks[k].fields.hend

---------------------------------------------------------------------------
(* C16: the end of the last block of a chromosome.                         *)

\* position k is the last of its chromosome of genome x in the list s
LastOnChromosome(s, x, k) ==
    \A j \in (k + 1)..Len(s) : Fld(s[j], x, "chr") # Fld(s[k], x, "chr")

\* the list the pass on genome x scans: the generated list for the mouse
\* pass, the list sorted on human coordinates for the human pass
Scanned(x) == IF x = "m" THEN blks ELSE SortBlocks(blks, "h")

\* the greatest end in genome x of the genes of block b
GeneEnd(b, x) == SetMax({ allPairs[p][x \o "end"] : p \in Members(b) })

\* the step of the pass on genome x leaves every block that is last of its
\* chromosome in the scanned list with the end of the last of its genes
KeepsLastEnd(x) ==
    \A k \in 1..Len(blks) :
        LastOnChromosome(Scanned(x), x, k) =>
            \E j \in 1..Len(blks') :
                /\ blks'[j].bname = Scanned(x)[k].bname
                /\ Fld(blks'[j], x, "end") = Fld(Scanned(x)[k], x, "end")
                /\ Fld(blks'[j], x, "end") = GeneEnd(blks'[j], x)

\* the step changes no end in genome x
KeepsEnds(x) ==
    \A k \in 1..Len(blks) : \E j \in 1..Len(blks') :
        /\ blks'[j].bname = blks[k].bname
        /\ Fld(blks'[j], x, "end") = Fld(blks[k], x, "end")

\* when massageBlocks has returned, on every chromosome of genome x the
\* block that starts last ends where the last of its genes ends
LastEndIsGeneEnd(x) ==
    \A k \in 1..Len(blks) :
        (\A j \in 1..Len(blks) :
            (j # k /\ Fld(blks[j], x, "chr") = Fld(blks[k], x, "chr"))
                => Fld(blks[j], x, "start") < Fld(blks[k], x, "start"))
            => Fld(blks[k], x, "end") = GeneEnd(blks[k], x)

\* C16: in each genome the block that is last of its chromosome in the
\* (chromosome, start) order the pass scans, the last block of the list
\* included, keeps its end through massageBlocks: the pass of its genome
\* leaves it at the greatest end of its genes and the other pass does not
\* touch it; and in the list massageBlocks returns, the block that starts
\* last on a chromosome ends where the last of its genes ends.
C16_LastEndKept ==
    /\ [][/\ pc = "massageMouse" => (KeepsLastEnd("m") /\ KeepsEnds("h"))
          /\ pc = "massageHuman" => (KeepsLastEnd("h") /\ KeepsEnds("m"))]_vars
    /\ [](Massaged => \A x \in Genomes : LastEndIsGeneEnd(x))

\* three blocks on two mouse chromosomes have been massaged, and the first
\* block of a chromosome was extended towards the second
C16_Witness ==
    /\ Massaged
    /\ Len(blks) = 3
    /\ \E j, k \in 1..3 : blks[j].fields.mchr # blks[k].fields.mchr
    /\ \E j, k \in 1..3 : blks[j].fields.hchr # blks[k].fields.hchr
    /\ \E k \in 1..3 : blks[k].fields.mend > GeneEnd(blks[k], "m")

---------------------------------------------------------------------------
(* C17: how a gap is split.                                                *)

\* the block of the list s that has the id of b
SameBlock(s, b) == CHOOSE c \in { s[j] : j \in 1..Len(s) } : c.bname = b.bname

\* the step of the pass on genome x splits every gap of one base or more
\* between two neighbours of one chromosome in the scanned list: the earlier
\* block gains floor(gap / 2), the later one starts right after it and so
\* gains gap - 1 - floor(gap / 2), which is as much or one less
SplitsGaps(x) ==
    \A k \in 1..(Len(blks) - 1) :
        LET cb == Scanned(x)[k]
            nb == Scanned(x)[k + 1]
            gap == Fld(nb, x, "start") - Fld(cb, x, "end")
            cend == Fld(SameBlock(blks', cb), x, "end")
            nstart == Fld(SameBlock(blks', nb), x, "start")
        IN  (Fld(cb, x, "chr") = Fld(nb, x, "chr") /\ gap >= 1) =>
                /\ cend = Fld(cb, x, "end") + (gap \div 2)
                /\ nstart = cend + 1
                /\ Fld(nb, x, "start") - nstart = gap - 1 - (gap \div 2)
                /\ cend - Fld(cb, x, "end") >= Fld(nb, x, "start") - nstart
                /\ cend - Fld(cb, x, "end") <= Fld(nb, x, "start") - nstart + 1

\* a block on mouse chromosome 6 from start to end
BlockAt(name, start, end) ==
    [bname |-> name, ori |-> 1, bcount |-> 1,
     fields |-> [mchr |-> "6", mstart |-> start, mend |-> end, mstrand |-> "+",
                 hchr |-> "22", hstart |-> start, hend |-> end, hstrand |-> "+",
                 iHi |-> 0, iMi |-> 0]]

\* end(block1) = 100 and start(block2) = 106 become 103 and 104; with
\* start(block2) = 105 they become 102 and 103
SplitExample ==
    /\ LET out == MassageOne(<<BlockAt("6_1", 90, 100), BlockAt("6_2", 106, 110)>>, "m").blocks
       IN  out[1].fields.mend = 103 /\ out[2].fields.mstart = 104
    /\ LET out == MassageOne(<<BlockAt("6_1", 90, 100), BlockAt("6_2", 105, 110)>>, "h").blocks
       IN  out[1].fields.hend = 102 /\ out[2].fields.hstart = 103

\* C17: in a pass, for two neighbours of one chromosome whose gap
\* next.start - current.end is 1 or more, current.end grows by
\* floor(gap / 2) and next.start becomes the new end + 1, so the earlier
\* block gains floor(gap / 2) and the later gap - 1 - floor(gap / 2): as
\* many or one less.  For end 100 and start 106 the result is 103 and 104.
C17_GapSplit ==
    [][/\ pc = "massageMouse" => SplitsGaps("m")
       /\ pc = "massageHuman" => SplitsGaps("h")
       /\ pc = "massageMouse" => SplitExample]_vars

\* the passes have split a mouse gap of three bases (one base to each
\* side) and a human gap of two bases (one base to the earlier block)
C17_Witness ==
    /\ Massaged
    /\ \E j, k \in 1..Len(blks) :
        /\ GeneEnd(blks[j], "m") = 1
        /\ blks[j].fields.mend = 2
        /\ blks[k].fields.mstart = 3
        /\ SetMin({ allPairs[p].mstart : p \in Members(blks[k]) }) = 4
    /\ \E j, k \in 1..Len(blks) :
        /\ GeneEnd(blks[j], "h") = 1
        /\ blks[j].fields.hend = 2
        /\ blks[k].fields.hstart = 3
        /\ SetMin({ allPairs[p].hstart : p \in Members(blks[k]) }) = 3

---------------------------------------------------------------------------
(* C18: blocks are maximal runs.                                           *)

\* the pair could have been merged into the block under the merge rule
Mergeable(pair, block) ==
    /\ pair.mchr = block.fields.mchr
    /\ pair.hchr = block.fields.hchr
    /\ (pair.mstrand = pair.hstrand) = (block.ori = 1)
    /\ pair.iHi = block.fields.iHi + block.ori

\* a step of generateBlocks that starts a block after another one scans a
\* pair that the block before, as it stands, cannot take
StartsOnlyWhenNoMerge ==
    (pc = "generate" /\ blks # <<>> /\ Len(blks') = Len(blks) + 1)
        => ~Mergeable(allPairs[idx], blks[Len(blks)])

\* in the returned list the first pair of every block but the first cannot
\* be merged into the block before it
MaximalRuns ==
    pc = "massageMouse" =>
        \A k \in 1..(Len(blks) - 1) :
            ~Mergeable(allPairs[FirstMember(blks[k + 1])], blks[k])

\* C18: the blocks generateBlocks returns are maximal runs: for two blocks
\* that follow each other in the list, the first pair of the later one does
\* not satisfy the merge rule against the earlier one as it stood when the
\* pair was scanned (another mchr, hchr or orientation, or a rankB that is
\* not lastRankB + orientation).
C18_MaximalRuns == [][StartsOnlyWhenNoMerge]_vars /\ []MaximalRuns

\* generateBlocks has returned three blocks; two that follow each other
\* agree in both chromosomes and in orientation and are kept apart by the
\* rank alone, and two differ in orientation
C18_Witness ==
    /\ pc = "massageMouse"
    /\ Len(blks) = 3
    /\ \E k \in 1..2 :
        /\ blks[k].fields.mchr = blks[k + 1].fields.mchr
        /\ blks[k].fields.hchr = blks[k + 1].fields.hchr
        /\ blks[k].ori = blks[k + 1].ori
    /\ \E k \in 1..2 : blks[k].ori # blks[k + 1].ori

---------------------------------------------------------------------------
(* C19: the blocks massageBlocks returns are intervals.                    *)

\* C19: after massageBlocks every block is a valid interval in both
\* genomes: 1 <= start <= end.  The code breaks it when two neighbours
\* touch (next.start = current.end): delta is 0, epsilon 1, so the end stays
\* and the start of the next block moves one base up, past its own end when
\* the block is one base long.
C19_ValidIntervals ==
    Massaged =>
        \A k \in 1..Len(blks) : \A x \in Genomes :
            /\ Fld(blks[k], x, "start") >= 1
            /\ Fld(blks[k], x, "start") <= Fld(blks[k], x, "end")

---------------------------------------------------------------------------
(* C20: the gaps a pass computes.                                          *)

\* the list s is in (chromosome, start) order of genome x
InOrder(s, x) == \A k \in 1..(Len(s) - 1) : ~KeyLess(s[k + 1].fields, s[k].fields, x)

\* for neighbours of one chromosome of genome x in the list s the next
\* block does not start before the current one ends
NoNegativeGap(s, x) ==
    \A k \in 1..(Len(s) - 1) :
        Fld(s[k], x, "chr") = Fld(s[k + 1], x, "chr")
            => Fld(s[k + 1], x, "start") - Fld(s[k], x, "end") >= 0

\* the mouse half of C20
MouseGapsNotNegative ==
    pc = "massageMouse" => (InOrder(blks, "m") /\ NoNegativeGap(blks, "m"))

\* the human half of C20
HumanGapsNotNegative ==
    pc = "massageHuman" =>
        (InOrder(SortBlocks(blks, "h"), "h") /\ NoNegativeGap(SortBlocks(blks, "h"), "h"))

\* C20: in both passes the gap next.start - current.end of two neighbours
\* of one chromosome is never negative: the list generateBlocks returns is
\* in (mchr, mstart) order without overlap, and so is the list sorted on
\* (hchr, hstart) on the human side.  The code breaks it: a one-base gene
\* and a longer gene that start together both survive the sweep, and the
\* stable sorts can put the longer one first.
C20_GapsNotNegative == MouseGapsNotNegative /\ HumanGapsNotNegative

---------------------------------------------------------------------------
(* C21: massaging only grows blocks.                                       *)

\* the least start in genome x of the genes of block b, which is the start
\* generateBlocks gave the block
GeneStart(b, x) == SetMin({ allPairs[p][x \o "start"] : p \in Members(b) })

\* C21: for every block and each genome the interval after massageBlocks
\* contains the interval before it (start after <= start before, end after
\* >= end before), so every gene of the block lies inside the final
\* interval.  The code breaks it when two neighbours touch: delta is 0 and
\* epsilon 1, so the next block's start moves one base up, off the first
\* base of its first gene.
C21_MassageOnlyGrows ==
    Massaged =>
        \A k \in 1..Len(blks) : \A x \in Genomes :
            /\ Fld(blks[k], x, "start") <= GeneStart(blks[k], x)
            /\ Fld(blks[k], x, "end") >= GeneEnd(blks[k], x)
            /\ \A p \in Members(blks[k]) :
                /\ Fld(blks[k], x, "start") <= allPairs[p][x \o "start"]
                /\ allPairs[p][x \o "end"] <= Fld(blks[k], x, "end")

====
